---- MODULE Spec2Model ----
(***************************************************************************)
(* Voicemail processing pipeline of avaya_smtp_proxy: the Celery task      *)
(* process_voicemail_email, the coroutine _process_voicemail_async, and    *)
(* FileManager's working / processed / failed areas.                       *)
(***************************************************************************)
EXTENDS Integers, Sequences, FiniteSets, TLC

\* ------------------------------------------------------------------ bounds
NumCids == 2
MaxAudio == 2
MaxRedeliveries == 1

\* ------------------------------------------------------- program constants
\* CeleryConfig.task_max_retries
task_max_retries == 3
\* StorageConfig.cleanup_after_hours, the retention window in hours
cleanup_after_hours == 24
\* StorageConfig.max_audio_size_mb
max_audio_size_mb == 50

Cids == 1..NumCids
Idx == 1..MaxAudio

\* ------------------------------------------------------------------- state
VARIABLES
  logLevel,               \* LoggingConfig.level, fixed at start-up
  nAudio,                 \* len(voicemail_msg.audio_attachments), per message
  rebuildable,            \* whether VoicemailMessage(**voicemail_data) validates
  temp, processed, failed,\* storage/<area>/<correlation_id> directories
  pc,                     \* position of the task for each message
  attempts,               \* invocations of process_voicemail_email so far
  redeliveries,           \* broker redeliveries after a lost worker
  retries,                \* self.request.retries of the Celery task
  taskState,              \* Celery result state of the task
  onFailureCalled,        \* BaseVoicemailTask.on_failure was run
  stored,                 \* stored_files (indices of the payloads in the map)
  transcription_results,  \* local list of _process_voicemail_async
  forwarded,              \* local flag of _process_voicemail_async
  files_cleaned,          \* local flag of _process_voicemail_async
  sweepPending,           \* a _schedule_old_file_cleanup task was created
  raised,                 \* process_voicemail_email raised to Celery
  result,                 \* ProcessingResult returned by the invocation
  sent,                   \* number of times the message reached the recipients
  finalizeArgs,           \* success arguments cleanup_correlation_files got
  lastFinalize,           \* outcome of the last cleanup_correlation_files
  failReason,             \* why the current attempt failed
  priorFailed,            \* an earlier attempt returned success=False
  futures,                \* results of the children of asyncio.gather
  call,                   \* a service method called on its own: arguments
  ret                     \* ... and what it returned

vars == <<logLevel, nAudio, rebuildable, temp, processed, failed, pc,
          attempts, redeliveries, retries, taskState, onFailureCalled,
          stored, transcription_results, forwarded, files_cleaned,
          sweepPending, raised, result, sent, finalizeArgs, lastFinalize,
          failReason, priorFailed, futures, call, ret>>

msgVars == <<logLevel, nAudio, rebuildable>>
fsVars == <<temp, processed, failed>>
queueVars == <<redeliveries, retries, taskState, onFailureCalled>>
callVars == <<call, ret>>

\* ------------------------------------------------------------- directories
NoDir == [present |-> FALSE, files |-> {}, old |-> FALSE]

NewDir(fs) == [present |-> TRUE, files |-> fs, old |-> FALSE]

\* ----------------------------------------------------------------- logging
LogLevels == {"DEBUG", "INFO", "CRITICAL"}

\* Logger.isEnabledFor for the two levels the file manager logs at
IsEnabledFor(level) ==
  IF level = "DEBUG" THEN logLevel = "DEBUG" ELSE logLevel # "CRITICAL"

\* attributes of a LogRecord that `extra` must not overwrite
ReservedLogRecordKeys == {"filename", "module", "name", "args", "msg"}

\* LoggerMixin.log_*: self.logger.<level>(message, extra=kwargs); makeRecord
\* raises KeyError when a key of extra names a LogRecord attribute
LogRaises(level, kwargs) ==
  IsEnabledFor(level) /\ (kwargs \cap ReservedLogRecordKeys) # {}

\* ------------------------------------------------------------------ result
NoResult ==
  [valid |-> FALSE, correlation_id |-> 0, success |-> FALSE,
   transcriptions_count |-> 0, error_message |-> FALSE,
   forwarded |-> FALSE, files_cleaned |-> FALSE]

ProcessingResult(cid, success, count, err, fwd, cleaned) ==
  [valid |-> TRUE, correlation_id |-> cid, success |-> success,
   transcriptions_count |-> count, error_message |-> err,
   forwarded |-> fwd, files_cleaned |-> cleaned]

\* ----------------------------------------------------------- transcription
\* what one slot of a result list holds: the TranscriptionResult of payload i
\* is written i, None is a failed transcription, Exc an exception object
\* that gather(return_exceptions=True) put in the slot, Pending a child of
\* gather that has not finished
None == 0
Exc == 0 - 1
Pending == 0 - 2

\* len([r for r in transcription_results if r is not None])
RECURSIVE CountNotNone(_)
CountNotNone(s) ==
  IF s = <<>> THEN 0
  ELSE (IF Head(s) # None THEN 1 ELSE 0) + CountNotNone(Tail(s))

\* what the speech API does to one recognize request
ApiOutcomes == {"results", "empty", "no_data", "api_error", "error"}

\* a transcribe_audio whose except clauses let the error through
TranscribeAudioPropagates(i, api) ==
  IF api = "results" THEN i
  ELSE IF api \in {"api_error", "error"} THEN Exc ELSE None

\* TranscriptionService.transcribe_audio for payload i: every path but the
\* one with recognition results returns None, the two except clauses
\* included
TranscribeAudio(i, api) ==
  IF api = "results" THEN i ELSE None

\* the children of asyncio.gather, one per payload, in payload order
NewFutures(n) == [i \in 1..n |-> Pending]

\* child i of gather finishes: its outcome is kept at position i
FutureDone(fs, i, outcome) == [fs EXCEPT ![i] = outcome]

\* a gather that resumes its caller once one child has finished
GatherDoneFirstCompleted(fs) == \E i \in DOMAIN fs : fs[i] # Pending

\* await asyncio.gather(*tasks, return_exceptions=True) resumes when every
\* child has finished
GatherDone(fs) == \A i \in DOMAIN fs : fs[i] # Pending

\* the result list of gather after its children finished in the order of
\* completed, a sequence of <<payload index, outcome>>
RECURSIVE Gather(_, _)
Gather(fs, completed) ==
  IF completed = <<>> THEN fs
  ELSE Gather(FutureDone(fs, Head(completed)[1], Head(completed)[2]),
              Tail(completed))

\* the for loop of transcribe_multiple over the results of gather; the
\* log_error of the exception branch passes filename=... as extra
RECURSIVE BatchLoop(_, _, _)
BatchLoop(results, i, acc) ==
  IF i > Len(results) THEN [raised |-> FALSE, list |-> acc]
  ELSE IF results[i] = Exc
       THEN IF LogRaises("ERROR", {"filename", "error"})
            THEN [raised |-> TRUE, list |-> <<>>]
            ELSE BatchLoop(results, i + 1, Append(acc, None))
       ELSE BatchLoop(results, i + 1, Append(acc, results[i]))

\* TranscriptionService.transcribe_multiple over n payloads whose calls
\* finish in the order of completed
TranscribeMultiple(n, completed) ==
  IF n = 0 THEN [raised |-> FALSE, list |-> <<>>]
  ELSE BatchLoop(Gather(NewFutures(n), completed), 1, <<>>)

\* voicemail_msg.transcription_results as the transcription step assigns it
\* from the local list
MsgTranscriptionResults(results) ==
  SelectSeq(results, LAMBDA r : r # None)

\* text is a sequence of characters
\* str.__contains__: part in text
Contains(text, part) ==
  \E k \in 1..(Len(text) - Len(part) + 1) :
     SubSeq(text, k, k + Len(part) - 1) = part

\* str.lower for the letters of the model
LowerChar(ch) ==
  CASE ch = "W" -> "w" [] ch = "A" -> "a" [] ch = "V" -> "v"
    [] ch = "M" -> "m" [] ch = "R" -> "r" [] ch = "B" -> "b"
    [] OTHER -> ch

Lower(text) == [k \in 1..Len(text) |-> LowerChar(text[k])]

\* TranscriptionService._get_audio_encoding: the branches in the order of
\* the if / elif chain; the MP3 branch and the last branch log a warning
\* and return LINEAR16
GetAudioEncoding(content_type) ==
  LET lower == Lower(content_type)
  IN IF Contains(lower, <<"w", "a", "v">>) THEN "LINEAR16"
     ELSE IF Contains(lower, <<"m", "p", "3">>)
             \/ Contains(lower, <<"m", "p", "e", "g">>) THEN "LINEAR16"
     ELSE IF Contains(lower, <<"f", "l", "a", "c">>) THEN "FLAC"
     ELSE IF Contains(lower, <<"o", "g", "g">>) THEN "OGG_OPUS"
     ELSE IF Contains(lower, <<"a", "m", "r">>) THEN "AMR"
     ELSE IF Contains(lower, <<"a", "m", "r", "-", "w", "b">>) THEN "AMR_WB"
     ELSE "LINEAR16"

\* the log records a call writes: a record is emitted when its level is
\* enabled
Emitted(level, message) ==
  IF IsEnabledFor(level) THEN <<message>> ELSE <<>>

\* what self.client.recognize does to one request
RecognizeConditions ==
  {"results", "no_results", "invalid_argument", "deadline_exceeded",
   "resource_exhausted", "other_error"}

\* a _perform_transcription with one except clause for every error
PerformTranscriptionOneClause(cond) ==
  IF cond \in {"results", "no_results"}
  THEN [response |-> cond, log |-> <<>>]
  ELSE [response |-> "None",
        log |-> Emitted("ERROR", "Transcription API call failed")]

\* TranscriptionService._perform_transcription: the response, or None after
\* the error message of the except clause that caught the exception
PerformTranscription(cond) ==
  CASE cond \in {"results", "no_results"} ->
         [response |-> cond, log |-> <<>>]
    [] cond = "invalid_argument" ->
         [response |-> "None",
          log |-> Emitted("ERROR", "Invalid argument for transcription")]
    [] cond = "deadline_exceeded" ->
         [response |-> "None",
          log |-> Emitted("ERROR", "Transcription timeout")]
    [] cond = "resource_exhausted" ->
         [response |-> "None",
          log |-> Emitted("ERROR", "API quota exceeded")]
    [] OTHER ->
         [response |-> "None",
          log |-> Emitted("ERROR", "Transcription API call failed")]

\* TranscriptionService.transcribe_audio for payload i with its log
\* records: one recognize request, and None with a warning for every
\* response but one with results
TranscribeAudioLogged(i, cond) ==
  LET r == PerformTranscription(cond)
      start == Emitted("INFO", "Starting transcription of audio file")
  IN IF r.response = "results"
     THEN [value |-> i, requests |-> 1,
           log |-> start \o r.log
                   \o Emitted("INFO", "Transcription completed successfully")]
     ELSE [value |-> None, requests |-> 1,
           log |-> start \o r.log
                   \o Emitted("WARNING", "No transcription results returned")]

\* --------------------------------------------------------- email processor
\* a subject line is a sequence of tokens; the two markers are tokens of
\* their own and SP is one space
TR == "[Transcribed]"
AU == "[Audio]"
SP == " "

\* str.startswith
StartsWith(s, prefix) ==
  /\ Len(s) >= Len(prefix)
  /\ SubSeq(s, 1, Len(prefix)) = prefix

\* an enhancer that adds its marker without looking at the subject
EnhanceSubjectAlways(original_subject, results) ==
  IF CountNotNone(results) > 0
  THEN <<TR, SP>> \o original_subject
  ELSE <<AU, SP>> \o original_subject

\* EmailProcessor._enhance_subject
EnhanceSubject(original_subject, results) ==
  IF CountNotNone(results) > 0
  THEN IF ~StartsWith(original_subject, <<TR>>)
       THEN <<TR, SP>> \o original_subject ELSE original_subject
  ELSE IF ~StartsWith(original_subject, <<AU>>)
       THEN <<AU, SP>> \o original_subject ELSE original_subject

\* a body builder that never announces missing transcriptions
PlainTextBodyNoNotice(n, results, body_text) ==
  (IF CountNotNone(results) > 0 THEN <<"transcription">> ELSE <<>>)
  \o (IF body_text THEN <<"original">> ELSE <<>>)

\* EmailProcessor._create_plain_text_body as the sequence of its sections;
\* n is len(voicemail_msg.audio_attachments)
PlainTextBody(n, results, body_text) ==
  (IF CountNotNone(results) > 0 THEN <<"transcription">>
   ELSE IF n > 0 THEN <<"notice">> ELSE <<>>)
  \o (IF body_text THEN <<"original">> ELSE <<>>)

\* a body builder that writes an entry for every slot of the list
TranscriptionEntriesEverySlot(results) == results

\* the entries of the transcription section of both bodies, in the order
\* they are written: successful_transcriptions, the results that are not
\* None in list order
TranscriptionEntries(results) ==
  SelectSeq(results, LAMBDA r : r # None)

\* text is a sequence of characters; the fixed words the body builders
\* write around a value are one element each
DigitChars == <<"0", "1", "2", "3", "4", "5", "6", "7", "8", "9">>

Digit(d) == DigitChars[d + 1]

\* the decimal digits of a natural number
RECURSIVE Decimal(_)
Decimal(n) ==
  IF n < 10 THEN <<Digit(n)>>
  ELSE Decimal(n \div 10) \o <<Digit(n % 10)>>

\* a format that renders the confidence as a whole percentage
FormatPercentWhole(bp) ==
  Decimal(bp \div 100) \o <<"%">>

\* f"{result.confidence:.2%}" for a confidence of bp / 10000: the
\* percentage with two decimals and a percent sign
FormatPercent(bp) ==
  Decimal(bp \div 100) \o <<".">>
    \o <<Digit((bp % 100) \div 10), Digit(bp % 10)>> \o <<"%">>

\* EmailProcessor._html_escape for the characters of the model
RECURSIVE HtmlEscape(_)
HtmlEscape(text) ==
  IF text = <<>> THEN <<>>
  ELSE (CASE Head(text) = "&" -> <<"&", "a", "m", "p", ";">>
          [] Head(text) = "<" -> <<"&", "l", "t", ";">>
          [] OTHER -> <<Head(text)>>)
       \o HtmlEscape(Tail(text))

\* the lines _create_plain_text_body writes for one successful result
PlainEntry(transcript, bp) ==
  <<"Transcript: ">> \o transcript \o <<"\n", "Confidence: ">>
    \o FormatPercent(bp) \o <<"\n">>

\* the elements _create_html_body writes for one successful result
HtmlEntry(transcript, bp) ==
  <<"<p><strong>Transcript:</strong> ">> \o HtmlEscape(transcript)
    \o <<"</p>", "\n", "<p><strong>Confidence:</strong> ">>
    \o FormatPercent(bp) \o <<"</p>">>

\* an attachment of the message as the task received it: an audio payload
\* (an AudioAttachment, validated by the model class) or an entry of
\* other_attachments (a Dict[str, Any], which the model class does not look
\* into); complete says whether the entry has the keys "data",
\* "content_type" and "filename" with data as bytes
AudioOf(i) ==
  [kind |-> "audio", id |-> i, maintype |-> "audio", complete |-> TRUE]

OtherOf(i, complete) ==
  [kind |-> "other", id |-> i, maintype |-> "text", complete |-> complete]

\* MIMEApplication(data, _subtype=content_type.split("/")[-1]) with the
\* Content-Disposition header: the data and the filename of attachment a
\* under the main type application
MimePart(a) == [kind |-> a.kind, id |-> a.id, maintype |-> "application"]

\* the two for loops of _add_attachments as one pass over the audio
\* payloads followed by the other attachments; the try block encloses both,
\* so the first attachment that raises ends the pass and the handler keeps
\* what was attached before it
RECURSIVE AttachLoop(_, _, _)
AttachLoop(attachments, k, parts) ==
  IF k > Len(attachments) THEN parts
  ELSE IF ~attachments[k].complete THEN parts
  ELSE AttachLoop(attachments, k + 1, Append(parts, MimePart(attachments[k])))

\* EmailProcessor._add_attachments: the parts attached to msg
AddAttachments(audio_attachments, other_attachments) ==
  AttachLoop(audio_attachments \o other_attachments, 1, <<>>)

\* EmailProcessor._create_enhanced_email from the attachments on: the
\* message is returned whatever _add_attachments did
CreateEnhancedEmail(audio_attachments, other_attachments) ==
  [created |-> TRUE,
   parts |-> AddAttachments(audio_attachments, other_attachments)]

\* ------------------------------------------------------------ file manager
\* FileManager._store_audio_file for payload i: "path" when the stored path
\* is returned, "none" when None is returned, "raise" when the KeyError of a
\* log call with filename=... leaves the method
StoreAudioFile(i, writeOK) ==
  IF i \in writeOK
  THEN IF LogRaises("DEBUG", {"filename", "stored_path", "size_bytes"})
       THEN IF LogRaises("ERROR", {"filename", "size_bytes"})
            THEN "raise" ELSE "none"
       ELSE "path"
  ELSE IF LogRaises("ERROR", {"filename", "size_bytes"})
       THEN "raise" ELSE "none"

\* the for loop of store_voicemail_files from payload i on; acc carries the
\* files written so far, stored_files, and whether an exception left the loop
RECURSIVE StoreLoop(_, _, _, _)
StoreLoop(i, n, writeOK, acc) ==
  IF i > n \/ acc.aborted THEN acc
  ELSE LET r == StoreAudioFile(i, writeOK)
           fs == IF i \in writeOK THEN acc.files \cup {i} ELSE acc.files
       IN StoreLoop(i + 1, n, writeOK,
                    [files |-> fs,
                     stored |-> IF r = "path" THEN acc.stored \cup {i}
                                ELSE acc.stored,
                     aborted |-> (r = "raise")])

FinalizeFaults == {"none", "rmtarget", "move", "partial"}

\* what the storage volume can do to a call: the steps of finalize that can
\* raise, and whether work_dir.mkdir can succeed / fail
FaultyStorage == [faults |-> FinalizeFaults, mkdir |-> BOOLEAN]
ReliableStorage == [faults |-> {"none"}, mkdir |-> {TRUE}]
\* a volume on which the relocation of a directory can fail, so that the
\* fallback delete of the working directory runs
SharedVolume == [faults |-> {"none", "move"}, mkdir |-> {TRUE}]

\* a fallback that reports success whether or not the delete worked
FallbackDeleteAlwaysTrue(t, fallbackOK) ==
  IF fallbackOK
  THEN [t |-> NoDir, ret |-> TRUE, outcome |-> "deleted"]
  ELSE [t |-> t, ret |-> TRUE, outcome |-> "failed"]

\* the fallback of _cleanup_correlation_files: shutil.rmtree(work_dir)
FallbackDelete(t, fallbackOK) ==
  IF fallbackOK
  THEN [t |-> NoDir, ret |-> TRUE, outcome |-> "deleted"]
  ELSE [t |-> t, ret |-> FALSE, outcome |-> "failed"]

\* _cleanup_correlation_files with the target chosen without looking at
\* success: every working directory goes to processed
CleanupFilesIgnoreSuccess(t, p, f, success, fault, fallbackOK, partial) ==
  IF ~t.present
  THEN [t |-> t, p |-> p, f |-> f, ret |-> TRUE, outcome |-> "noop",
        sweep |-> FALSE]
  ELSE
    LET eff == IF fault = "rmtarget" /\ ~p.present THEN "none" ELSE fault
        tgt == CASE eff = "none" -> [t EXCEPT !.present = TRUE]
                 [] eff = "rmtarget" -> p
                 [] eff = "move" -> NoDir
                 [] OTHER -> NewDir(partial \cap t.files)
        fb == IF eff = "none"
              THEN [t |-> NoDir, ret |-> TRUE, outcome |-> "moved"]
              ELSE FallbackDelete(t, fallbackOK)
    IN [t |-> fb.t, p |-> tgt, f |-> f,
        ret |-> fb.ret, outcome |-> fb.outcome, sweep |-> (eff = "none")]

\* FileManager._cleanup_correlation_files on the directories t (temp),
\* p (processed), f (failed) of one correlation id.  fault names the step of
\* the try block that raises, partial the files a failing copy left behind
\* (none of them, or all of them when only the removal of the source failed).
CleanupFiles(t, p, f, success, fault, fallbackOK, partial) ==
  IF ~t.present
  THEN [t |-> t, p |-> p, f |-> f, ret |-> TRUE, outcome |-> "noop",
        sweep |-> FALSE]
  ELSE
    LET target == IF success THEN p ELSE f
        eff == IF fault = "rmtarget" /\ ~target.present THEN "none" ELSE fault
        tgt == CASE eff = "none" -> [t EXCEPT !.present = TRUE]
                 [] eff = "rmtarget" -> target
                 [] eff = "move" -> NoDir
                 [] OTHER -> NewDir(partial \cap t.files)
        fb == IF eff = "none"
              THEN [t |-> NoDir, ret |-> TRUE, outcome |-> "moved"]
              ELSE FallbackDelete(t, fallbackOK)
    IN [t |-> fb.t,
        p |-> IF success THEN tgt ELSE p,
        f |-> IF success THEN f ELSE tgt,
        ret |-> fb.ret, outcome |-> fb.outcome, sweep |-> (eff = "none")]

\* a finalize that moves the files of the working directory into a target
\* that exists, next to the files it holds
CleanupCorrelationFilesMerging(t, p, f, success, fault, fallbackOK, partial) ==
  LET r == CleanupFiles(t, p, f, success, fault, fallbackOK, partial)
  IN IF r.outcome # "moved" THEN r
     ELSE IF success
          THEN [r EXCEPT !.p = [@ EXCEPT !.files = @ \cup p.files]]
          ELSE [r EXCEPT !.f = [@ EXCEPT !.files = @ \cup f.files]]

\* FileManager.cleanup_correlation_files: the wrapper returns what the
\* internal method returns (the internal method catches its own errors)
CleanupCorrelationFiles(t, p, f, success, fault, fallbackOK, partial) ==
  CleanupFiles(t, p, f, success, fault, fallbackOK, partial)

\* FileManager.store_voicemail_files.  mkdirOK: work_dir.mkdir succeeds
\* (it can only fail when the directory does not exist afterwards);
\* writeOK: the payloads whose write and size check succeed.  On the except
\* path the method calls _cleanup_correlation_files(correlation_id), i.e.
\* with the default success=True, and returns {}.
StoreVoicemailFiles(t, p, f, n, mkdirOK, writeOK, fault, fallbackOK, partial) ==
  IF ~mkdirOK
  THEN LET cl == CleanupFiles(t, p, f, TRUE, fault, fallbackOK, partial)
       IN [t |-> cl.t, p |-> cl.p, f |-> cl.f, stored |-> {},
           excepted |-> TRUE, sweep |-> cl.sweep]
  ELSE
    LET loop == StoreLoop(1, n, writeOK,
                          [files |-> t.files, stored |-> {},
                           aborted |-> FALSE])
        work == [present |-> TRUE, files |-> loop.files, old |-> FALSE]
    IN IF loop.aborted
       THEN LET cl == CleanupFiles(work, p, f, TRUE, fault, fallbackOK, partial)
            IN [t |-> cl.t, p |-> cl.p, f |-> cl.f, stored |-> {},
                excepted |-> TRUE, sweep |-> cl.sweep]
       ELSE [t |-> work, p |-> p, f |-> f, stored |-> loop.stored,
             excepted |-> FALSE, sweep |-> FALSE]

\* FileManager._generate_safe_filename: "audio_", the index in two digits,
\* the first 8 hex digits of the MD5 of the original filename, and its
\* suffix; the last two are functions of the original filename.  (Indices
\* are counted from 1 here, from 0 in enumerate.)
GenerateSafeFilename(original_filename, index) ==
  <<index, original_filename>>

\* stored_files as the loop of store_voicemail_files fills it:
\* stored_files[attachment.filename] = file_path for every payload whose
\* path was returned, a later payload replacing an earlier one of the same
\* filename.  names is the list of attachment filenames.
StoredFilesMap(names, storedIdx) ==
  [fname \in {names[i] : i \in storedIdx} |->
     LET last == CHOOSE i \in storedIdx :
                   /\ names[i] = fname
                   /\ \A j \in storedIdx : names[j] = fname => j <= i
     IN GenerateSafeFilename(fname, last)]

\* FileManager._schedule_old_file_cleanup over one area: directories whose
\* modification time is before the cutoff are removed
CleanupOldDirectories(area) ==
  [c \in Cids |-> IF area[c].present /\ area[c].old THEN NoDir ELSE area[c]]

\* times are whole hours; a naive datetime is the hour its fields show
\* datetime.utcnow(): the fields of the current time in UTC
UtcNow(now) == now

\* datetime.fromtimestamp(st_mtime): the fields of the modification time in
\* the local zone of the process, tz hours east of UTC
FromTimestamp(st_mtime, tz) == st_mtime + tz

\* mod_time < cutoff_time as _cleanup_old_directories evaluates it
BeforeCutoff(st_mtime, now, tz) ==
  FromTimestamp(st_mtime, tz) < UtcNow(now) - cleanup_after_hours

NoMtime == 0 - 1

\* the for loop of _cleanup_old_directories from position k of the order in
\* which iterdir yields the directories; mtime[d] is NoMtime for a
\* correlation id with no directory in the area; bad is the directory
\* whose stat or rmtree raises.  The one try block encloses the loop, so an
\* exception ends it.  The result is the set of directories left.
RECURSIVE CleanupLoop(_, _, _, _, _, _, _)
CleanupLoop(order, k, mtime, now, tz, bad, left) ==
  IF k > Len(order) THEN left
  ELSE LET d == order[k]
       IN IF mtime[d] = NoMtime
          THEN CleanupLoop(order, k + 1, mtime, now, tz, bad, left)
          ELSE IF bad.id = d /\ bad.step = "stat" THEN left
          ELSE IF ~BeforeCutoff(mtime[d], now, tz)
          THEN CleanupLoop(order, k + 1, mtime, now, tz, bad, left)
          ELSE IF bad.id = d /\ bad.step = "rmtree" THEN left
          ELSE CleanupLoop(order, k + 1, mtime, now, tz, bad, left \ {d})

\* FileManager._cleanup_old_directories on one area
CleanupOldDirectoriesOf(area, order, mtime, now, tz, bad) ==
  CleanupLoop(order, 1, mtime, now, tz,
              IF bad.area = area THEN bad ELSE [bad EXCEPT !.id = 0],
              {d \in Cids : mtime[d] # NoMtime})

\* -------------------------------------------------------------------- Init
InitWith(E) ==
  /\ logLevel \in LogLevels
  /\ nAudio \in [Cids -> 0..MaxAudio]
  /\ rebuildable \in [Cids -> BOOLEAN]
  /\ \A c \in Cids \ E : nAudio[c] = 0 /\ rebuildable[c]
  /\ temp = [c \in Cids |-> NoDir]
  /\ processed = [c \in Cids |-> NoDir]
  /\ failed = [c \in Cids |-> NoDir]
  /\ pc = [c \in Cids |-> IF c \in E THEN "queued" ELSE "idle"]
  /\ attempts = [c \in Cids |-> 0]
  /\ redeliveries = [c \in Cids |-> 0]
  /\ retries = [c \in Cids |-> 0]
  /\ taskState = [c \in Cids |-> "PENDING"]
  /\ onFailureCalled = [c \in Cids |-> FALSE]
  /\ stored = [c \in Cids |-> {}]
  /\ transcription_results = [c \in Cids |-> <<>>]
  /\ forwarded = [c \in Cids |-> FALSE]
  /\ files_cleaned = [c \in Cids |-> FALSE]
  /\ sweepPending = [c \in Cids |-> FALSE]
  /\ raised = [c \in Cids |-> FALSE]
  /\ result = [c \in Cids |-> NoResult]
  /\ sent = [c \in Cids |-> 0]
  /\ finalizeArgs = [c \in Cids |-> {}]
  /\ lastFinalize = [c \in Cids |-> "none"]
  /\ failReason = [c \in Cids |-> "none"]
  /\ priorFailed = [c \in Cids |-> FALSE]
  /\ futures = [c \in Cids |-> <<>>]

\* no service method is called outside the pipeline
NoCall == [fn |-> "none", n |-> 0, completed |-> <<>>, results |-> <<>>,
           subject |-> <<>>, body_text |-> FALSE]
NoRet == [done |-> FALSE, raised |-> FALSE, list |-> <<>>,
          subject |-> <<>>, body |-> <<>>]

Init == InitWith({1}) /\ call = NoCall /\ ret = NoRet

\* ----------------------------------------------------------------- actions
Running == {"begin", "store", "transcribe", "gather", "forward", "finalize_ok",
            "finalize_fail", "finish", "returned"}

\* an outer handler that lets the exception reach Celery
OuterHandlerReraise(cid) ==
  [raised |-> TRUE, result |-> NoResult]

\* the except handler of process_voicemail_email: it builds a failure
\* ProcessingResult from voicemail_data and returns it
OuterHandler(cid) ==
  [raised |-> FALSE,
   result |-> ProcessingResult(cid, FALSE, 0, TRUE, FALSE, FALSE)]

\* a coroutine whose success flag follows the outcome of finalize
AsyncResultCleanFlips(c) ==
  IF failReason[c] = "none" /\ files_cleaned[c]
  THEN ProcessingResult(c, TRUE, CountNotNone(transcription_results[c]),
                        FALSE, forwarded[c], files_cleaned[c])
  ELSE ProcessingResult(c, FALSE, CountNotNone(transcription_results[c]),
                        TRUE, forwarded[c], files_cleaned[c])

\* a coroutine that builds its results without the forwarded argument, so
\* that the field keeps its default
AsyncResultForwardedDefault(c) ==
  IF failReason[c] = "none"
  THEN ProcessingResult(c, TRUE, CountNotNone(transcription_results[c]),
                        FALSE, FALSE, files_cleaned[c])
  ELSE ProcessingResult(c, FALSE, CountNotNone(transcription_results[c]),
                        TRUE, FALSE, files_cleaned[c])

\* the two return statements of _process_voicemail_async
AsyncResult(c) ==
  IF failReason[c] = "none"
  THEN ProcessingResult(c, TRUE, CountNotNone(transcription_results[c]),
                        FALSE, forwarded[c], files_cleaned[c])
  ELSE ProcessingResult(c, FALSE, CountNotNone(transcription_results[c]),
                        TRUE, forwarded[c], files_cleaned[c])

\* the broker hands the message to a worker: process_voicemail_email starts
Deliver(c) ==
  /\ pc[c] = "queued"
  /\ pc' = [pc EXCEPT ![c] = "begin"]
  /\ attempts' = [attempts EXCEPT ![c] = @ + 1]
  /\ stored' = [stored EXCEPT ![c] = {}]
  /\ transcription_results' = [transcription_results EXCEPT ![c] = <<>>]
  /\ forwarded' = [forwarded EXCEPT ![c] = FALSE]
  /\ files_cleaned' = [files_cleaned EXCEPT ![c] = FALSE]
  /\ sweepPending' = [sweepPending EXCEPT ![c] = FALSE]
  /\ raised' = [raised EXCEPT ![c] = FALSE]
  /\ result' = [result EXCEPT ![c] = NoResult]
  /\ finalizeArgs' = [finalizeArgs EXCEPT ![c] = {}]
  /\ lastFinalize' = [lastFinalize EXCEPT ![c] = "none"]
  /\ failReason' = [failReason EXCEPT ![c] = "none"]
  /\ futures' = [futures EXCEPT ![c] = <<>>]
  /\ UNCHANGED <<msgVars, fsVars, queueVars, sent, priorFailed>>

\* a coroutine that runs step 1 whether or not the message has audio
BeginAlwaysStores(c) ==
  /\ pc[c] = "begin"
  /\ rebuildable[c]
  /\ pc' = [pc EXCEPT ![c] = "store"]
  /\ UNCHANGED <<msgVars, futures, fsVars, queueVars, attempts, stored,
                 transcription_results, forwarded, files_cleaned,
                 sweepPending, raised, result, sent, finalizeArgs,
                 lastFinalize, failReason, priorFailed>>

\* VoicemailMessage(**voicemail_data) succeeds; asyncio.run starts the
\* coroutine, which skips steps 1 and 2 when there is no audio
Begin(c) ==
  /\ pc[c] = "begin"
  /\ rebuildable[c]
  /\ pc' = [pc EXCEPT ![c] = IF nAudio[c] > 0 THEN "store" ELSE "forward"]
  /\ UNCHANGED <<msgVars, futures, fsVars, queueVars, attempts, stored,
                 transcription_results, forwarded, files_cleaned,
                 sweepPending, raised, result, sent, finalizeArgs,
                 lastFinalize, failReason, priorFailed>>

\* VoicemailMessage(**voicemail_data) raises: the outer handler answers
RebuildFail(c) ==
  /\ pc[c] = "begin"
  /\ ~rebuildable[c]
  /\ pc' = [pc EXCEPT ![c] = "returned"]
  /\ failReason' = [failReason EXCEPT ![c] = "rebuild"]
  /\ raised' = [raised EXCEPT ![c] = OuterHandler(c).raised]
  /\ result' = [result EXCEPT ![c] = OuterHandler(c).result]
  /\ UNCHANGED <<msgVars, futures, fsVars, queueVars, attempts, stored,
                 transcription_results, forwarded, files_cleaned,
                 sweepPending, sent, finalizeArgs, lastFinalize, priorFailed>>

\* step 1: store_voicemail_files and the check of its return value
Store(c, env) ==
  /\ pc[c] = "store"
  /\ \E mkdirOK \in env.mkdir, writeOK \in SUBSET (1..nAudio[c]),
        fault \in env.faults, fallbackOK \in BOOLEAN,
        partial \in {{}, Idx} :
       /\ ~mkdirOK => ~temp[c].present
       /\ fault # "partial" => partial = {}
       /\ LET r == StoreVoicemailFiles(temp[c], processed[c], failed[c],
                                       nAudio[c], mkdirOK, writeOK, fault,
                                       fallbackOK, partial)
          IN /\ temp' = [temp EXCEPT ![c] = r.t]
             /\ processed' = [processed EXCEPT ![c] = r.p]
             /\ failed' = [failed EXCEPT ![c] = r.f]
             /\ stored' = [stored EXCEPT ![c] = r.stored]
             /\ sweepPending' = [sweepPending EXCEPT ![c] = r.sweep]
             /\ IF r.stored = {}
                THEN /\ pc' = [pc EXCEPT ![c] = "finalize_fail"]
                     /\ failReason' = [failReason EXCEPT ![c] = "storage"]
                ELSE /\ pc' = [pc EXCEPT ![c] = "transcribe"]
                     /\ UNCHANGED failReason
  /\ UNCHANGED <<msgVars, futures, queueVars, attempts, transcription_results,
                 forwarded, files_cleaned, raised, result, sent,
                 finalizeArgs, lastFinalize, priorFailed>>

\* a step 2 that creates transcribe_audio calls for the stored payloads only
TranscribeStartStoredOnly(c) ==
  /\ pc[c] = "transcribe"
  /\ futures' = [futures EXCEPT ![c] = NewFutures(Cardinality(stored[c]))]
  /\ pc' = [pc EXCEPT ![c] = "gather"]
  /\ UNCHANGED <<msgVars, fsVars, queueVars, attempts, stored,
                 transcription_results, forwarded, files_cleaned,
                 sweepPending, raised, result, sent, finalizeArgs,
                 lastFinalize, failReason, priorFailed>>

\* step 2 begins: transcribe_multiple creates one transcribe_audio call per
\* entry of voicemail_msg.audio_attachments and awaits gather
TranscribeStart(c) ==
  /\ pc[c] = "transcribe"
  /\ futures' = [futures EXCEPT ![c] = NewFutures(nAudio[c])]
  /\ pc' = [pc EXCEPT ![c] = "gather"]
  /\ UNCHANGED <<msgVars, fsVars, queueVars, attempts, stored,
                 transcription_results, forwarded, files_cleaned,
                 sweepPending, raised, result, sent, finalizeArgs,
                 lastFinalize, failReason, priorFailed>>

\* one transcribe_audio call finishes, in any order among the calls
CallDone(c) ==
  /\ pc[c] = "gather"
  /\ \E i \in DOMAIN futures[c], api \in ApiOutcomes :
       /\ futures[c][i] = Pending
       /\ futures' = [futures EXCEPT
                        ![c] = FutureDone(@, i, TranscribeAudio(i, api))]
  /\ UNCHANGED <<msgVars, fsVars, queueVars, pc, attempts, stored,
                 transcription_results, forwarded, files_cleaned,
                 sweepPending, raised, result, sent, finalizeArgs,
                 lastFinalize, failReason, priorFailed>>

\* step 2 ends: gather resumes transcribe_multiple, which builds the list
\* the coroutine keeps; an exception leaving it reaches the except handler
Transcribe(c) ==
  /\ pc[c] = "gather"
  /\ GatherDone(futures[c])
  /\ LET r == BatchLoop(futures[c], 1, <<>>)
     IN IF r.raised
        THEN /\ pc' = [pc EXCEPT ![c] = "finalize_fail"]
             /\ failReason' = [failReason EXCEPT ![c] = "transcription"]
             /\ UNCHANGED transcription_results
        ELSE /\ pc' = [pc EXCEPT ![c] = "forward"]
             /\ transcription_results' =
                  [transcription_results EXCEPT ![c] = r.list]
             /\ UNCHANGED failReason
  /\ UNCHANGED <<msgVars, futures, fsVars, queueVars, attempts, stored,
                 forwarded, files_cleaned, sweepPending, raised, result,
                 sent, finalizeArgs, lastFinalize, priorFailed>>

\* step 3: enhance_and_forward and the check of its return value
Forward(c) ==
  /\ pc[c] = "forward"
  /\ \E ok \in BOOLEAN :
       /\ forwarded' = [forwarded EXCEPT ![c] = ok]
       /\ sent' = [sent EXCEPT ![c] = IF ok THEN @ + 1 ELSE @]
       /\ pc' = [pc EXCEPT ![c] = IF ok THEN "finalize_ok" ELSE "finalize_fail"]
       /\ failReason' = [failReason EXCEPT ![c] = IF ok THEN @ ELSE "dispatch"]
  /\ UNCHANGED <<msgVars, futures, fsVars, queueVars, attempts, stored,
                 transcription_results, files_cleaned, sweepPending, raised,
                 result, finalizeArgs, lastFinalize, priorFailed>>

\* a finalize that clears the whole working area instead of the directory of
\* its correlation id
FinalizeWholeArea(c, success, env) ==
  \E fault \in env.faults, fallbackOK \in BOOLEAN, partial \in {{}, Idx} :
     /\ fault # "partial" => partial = {}
     /\ LET r == CleanupCorrelationFiles(temp[c], processed[c], failed[c],
                                         success, fault, fallbackOK,
                                         partial \cap temp[c].files)
        IN /\ temp' = [d \in Cids |-> IF d = c THEN r.t ELSE NoDir]
           /\ processed' = [processed EXCEPT ![c] = r.p]
           /\ failed' = [failed EXCEPT ![c] = r.f]
           /\ files_cleaned' = [files_cleaned EXCEPT ![c] = r.ret]
           /\ lastFinalize' = [lastFinalize EXCEPT ![c] = r.outcome]
           /\ sweepPending' = [sweepPending EXCEPT ![c] = @ \/ r.sweep]
     /\ finalizeArgs' = [finalizeArgs EXCEPT ![c] = @ \cup {success}]
     /\ pc' = [pc EXCEPT ![c] = "finish"]
     /\ UNCHANGED <<msgVars, futures, queueVars, attempts, stored,
                    transcription_results, forwarded, raised, result, sent,
                    failReason, priorFailed>>

\* cleanup_correlation_files(correlation_id, success) called by the coroutine
Finalize(c, success, env) ==
  \E fault \in env.faults, fallbackOK \in BOOLEAN, partial \in {{}, Idx} :
     /\ fault # "partial" => partial = {}
     /\ LET r == CleanupCorrelationFiles(temp[c], processed[c], failed[c],
                                         success, fault, fallbackOK,
                                         partial \cap temp[c].files)
        IN /\ temp' = [temp EXCEPT ![c] = r.t]
           /\ processed' = [processed EXCEPT ![c] = r.p]
           /\ failed' = [failed EXCEPT ![c] = r.f]
           /\ files_cleaned' = [files_cleaned EXCEPT ![c] = r.ret]
           /\ lastFinalize' = [lastFinalize EXCEPT ![c] = r.outcome]
           /\ sweepPending' = [sweepPending EXCEPT ![c] = @ \/ r.sweep]
     /\ finalizeArgs' = [finalizeArgs EXCEPT ![c] = @ \cup {success}]
     /\ pc' = [pc EXCEPT ![c] = "finish"]
     /\ UNCHANGED <<msgVars, futures, queueVars, attempts, stored,
                    transcription_results, forwarded, raised, result, sent,
                    failReason, priorFailed>>

\* step 4 on the success path
FinalizeOk(c, env) ==
  /\ pc[c] = "finalize_ok"
  /\ Finalize(c, TRUE, env)

\* the except handler of _process_voicemail_async
FinalizeFail(c, env) ==
  /\ pc[c] = "finalize_fail"
  /\ Finalize(c, FALSE, env)

\* an asyncio.run that cancels the sweep task before its first step
FinishCancelsSweep(c) ==
  /\ pc[c] = "finish"
  /\ sweepPending' = [sweepPending EXCEPT ![c] = FALSE]
  /\ result' = [result EXCEPT ![c] = AsyncResult(c)]
  /\ pc' = [pc EXCEPT ![c] = "returned"]
  /\ UNCHANGED <<msgVars, futures, fsVars, queueVars, attempts, stored,
                 transcription_results, forwarded, files_cleaned, raised,
                 sent, finalizeArgs, lastFinalize, failReason, priorFailed>>

\* the coroutine returns its ProcessingResult; before asyncio.run returns,
\* the event loop runs the sweep task that a finalize created
Finish(c) ==
  /\ pc[c] = "finish"
  /\ IF sweepPending[c]
     THEN /\ processed' = CleanupOldDirectories(processed)
          /\ failed' = CleanupOldDirectories(failed)
     ELSE UNCHANGED <<processed, failed>>
  /\ sweepPending' = [sweepPending EXCEPT ![c] = FALSE]
  /\ result' = [result EXCEPT ![c] = AsyncResult(c)]
  /\ pc' = [pc EXCEPT ![c] = "returned"]
  /\ UNCHANGED <<msgVars, futures, temp, queueVars, attempts, stored,
                 transcription_results, forwarded, files_cleaned, raised,
                 sent, finalizeArgs, lastFinalize, failReason, priorFailed>>

\* task_soft_time_limit elapses while the coroutine waits for the executor
\* (speech recognition or SMTP send) and the main thread sits in the event
\* loop: the signal handler raises SoftTimeLimitExceeded there, the
\* exception leaves asyncio.run, which cancels the coroutine and the
\* unfinished children of gather, and the outer handler answers.  The SMTP
\* thread may or may not have delivered the message.
SoftTimeLimit(c) ==
  /\ pc[c] \in {"gather", "forward"}
  /\ \E delivered \in BOOLEAN :
       /\ delivered => pc[c] = "forward"
       /\ sent' = [sent EXCEPT ![c] = IF delivered THEN @ + 1 ELSE @]
  /\ failReason' = [failReason EXCEPT ![c] = "timeout"]
  /\ raised' = [raised EXCEPT ![c] = OuterHandler(c).raised]
  /\ result' = [result EXCEPT ![c] = OuterHandler(c).result]
  /\ futures' = [futures EXCEPT ![c] = <<>>]
  /\ pc' = [pc EXCEPT ![c] = "returned"]
  /\ UNCHANGED <<msgVars, fsVars, queueVars, attempts, stored,
                 transcription_results, forwarded, files_cleaned,
                 sweepPending, finalizeArgs, lastFinalize, priorFailed>>

\* what Celery does with the outcome of the task function under
\* autoretry_for=(Exception,) and max_retries
CeleryOutcome(hasRaised, nRetries) ==
  IF hasRaised
  THEN IF nRetries < task_max_retries THEN "RETRY" ELSE "FAILURE"
  ELSE "SUCCESS"

\* the task function has returned (or raised) and the message is acknowledged
Ack(c) ==
  /\ pc[c] = "returned"
  /\ LET o == CeleryOutcome(raised[c], retries[c])
     IN /\ pc' = [pc EXCEPT ![c] = IF o = "RETRY" THEN "queued" ELSE "done"]
        /\ retries' = [retries EXCEPT ![c] = IF o = "RETRY" THEN @ + 1 ELSE @]
        /\ taskState' = [taskState EXCEPT ![c] = o]
        /\ onFailureCalled' = [onFailureCalled EXCEPT ![c] = (o = "FAILURE")]
        /\ priorFailed' = [priorFailed EXCEPT ![c] = @ \/ (o = "RETRY")]
  /\ UNCHANGED <<msgVars, futures, fsVars, attempts, redeliveries, stored,
                 transcription_results, forwarded, files_cleaned,
                 sweepPending, raised, result, sent, finalizeArgs,
                 lastFinalize, failReason>>

\* the worker process dies before the late acknowledgement:
\* task_acks_late with task_reject_on_worker_lost requeues the message;
\* the locals of the invocation die with the process
WorkerLost(c) ==
  /\ pc[c] \in Running
  /\ redeliveries[c] < MaxRedeliveries
  /\ redeliveries' = [redeliveries EXCEPT ![c] = @ + 1]
  /\ priorFailed' = [priorFailed EXCEPT ![c] =
                       @ \/ (pc[c] = "returned" /\ ~result[c].success)]
  /\ pc' = [pc EXCEPT ![c] = "queued"]
  /\ stored' = [stored EXCEPT ![c] = {}]
  /\ transcription_results' = [transcription_results EXCEPT ![c] = <<>>]
  /\ forwarded' = [forwarded EXCEPT ![c] = FALSE]
  /\ files_cleaned' = [files_cleaned EXCEPT ![c] = FALSE]
  /\ sweepPending' = [sweepPending EXCEPT ![c] = FALSE]
  /\ raised' = [raised EXCEPT ![c] = FALSE]
  /\ result' = [result EXCEPT ![c] = NoResult]
  /\ finalizeArgs' = [finalizeArgs EXCEPT ![c] = {}]
  /\ lastFinalize' = [lastFinalize EXCEPT ![c] = "none"]
  /\ failReason' = [failReason EXCEPT ![c] = "none"]
  /\ futures' = [futures EXCEPT ![c] = <<>>]
  /\ UNCHANGED <<msgVars, fsVars, attempts, retries, taskState,
                 onFailureCalled, sent>>

\* time passes: a directory of a terminal area gets older than the
\* retention window (cleanup_after_hours, hours).  One invocation is cut off
\* by task_time_limit (seconds), so no directory crosses the window while
\* its message is being processed.
AgeProcessed(c) ==
  /\ pc[c] \notin Running
  /\ processed[c].present /\ ~processed[c].old
  /\ processed' = [processed EXCEPT ![c].old = TRUE]
  /\ UNCHANGED <<msgVars, futures, temp, failed, pc, attempts, queueVars, stored,
                 transcription_results, forwarded, files_cleaned,
                 sweepPending, raised, result, sent, finalizeArgs,
                 lastFinalize, failReason, priorFailed>>

AgeFailed(c) ==
  /\ pc[c] \notin Running
  /\ failed[c].present /\ ~failed[c].old
  /\ failed' = [failed EXCEPT ![c].old = TRUE]
  /\ UNCHANGED <<msgVars, futures, temp, processed, pc, attempts, queueVars, stored,
                 transcription_results, forwarded, files_cleaned,
                 sweepPending, raised, result, sent, finalizeArgs,
                 lastFinalize, failReason, priorFailed>>

Next ==
  \E c \in Cids :
    \/ Deliver(c) /\ UNCHANGED callVars
    \/ Begin(c) /\ UNCHANGED callVars
    \/ RebuildFail(c) /\ UNCHANGED callVars
    \/ Store(c, FaultyStorage) /\ UNCHANGED callVars
    \/ TranscribeStart(c) /\ UNCHANGED callVars
    \/ CallDone(c) /\ UNCHANGED callVars
    \/ Transcribe(c) /\ UNCHANGED callVars
    \/ Forward(c) /\ UNCHANGED callVars
    \/ FinalizeOk(c, FaultyStorage) /\ UNCHANGED callVars
    \/ FinalizeFail(c, FaultyStorage) /\ UNCHANGED callVars
    \/ Finish(c) /\ UNCHANGED callVars
    \/ SoftTimeLimit(c) /\ UNCHANGED callVars
    \/ Ack(c) /\ UNCHANGED callVars
    \/ WorkerLost(c) /\ UNCHANGED callVars

\* the program on a storage volume whose directory operations can fail, at
\* any log level, with the soft time limit; all invocations of a message
\* fall within one retention window
Spec == Init /\ [][Next]_vars

\* the same program on a storage volume whose directory operations succeed,
\* at the default log level, with no task reaching its time limit; payload
\* writes, transcription and dispatch can still fail, and directories of
\* the terminal areas outlive the retention window between invocations
InitReliable == Init /\ logLevel = "INFO"

NextReliable ==
  \E c \in Cids :
    \/ Deliver(c) /\ UNCHANGED callVars
    \/ Begin(c) /\ UNCHANGED callVars
    \/ RebuildFail(c) /\ UNCHANGED callVars
    \/ Store(c, ReliableStorage) /\ UNCHANGED callVars
    \/ TranscribeStart(c) /\ UNCHANGED callVars
    \/ CallDone(c) /\ UNCHANGED callVars
    \/ Transcribe(c) /\ UNCHANGED callVars
    \/ Forward(c) /\ UNCHANGED callVars
    \/ FinalizeOk(c, ReliableStorage) /\ UNCHANGED callVars
    \/ FinalizeFail(c, ReliableStorage) /\ UNCHANGED callVars
    \/ Finish(c) /\ UNCHANGED callVars
    \/ Ack(c) /\ UNCHANGED callVars
    \/ WorkerLost(c) /\ UNCHANGED callVars
    \/ AgeProcessed(c) /\ UNCHANGED callVars
    \/ AgeFailed(c) /\ UNCHANGED callVars

SpecReliable == InitReliable /\ [][NextReliable]_vars

\* two messages in flight at the same time, each processed once, on workers
\* that share the storage volume
InFlightPair == {1, 2}

InitPair ==
  /\ InitWith(InFlightPair)
  /\ logLevel = "INFO"
  /\ call = NoCall /\ ret = NoRet

NextPair ==
  \E c \in Cids :
    \/ Deliver(c) /\ UNCHANGED callVars
    \/ Begin(c) /\ UNCHANGED callVars
    \/ RebuildFail(c) /\ UNCHANGED callVars
    \/ Store(c, SharedVolume) /\ UNCHANGED callVars
    \/ TranscribeStart(c) /\ UNCHANGED callVars
    \/ CallDone(c) /\ UNCHANGED callVars
    \/ Transcribe(c) /\ UNCHANGED callVars
    \/ Forward(c) /\ UNCHANGED callVars
    \/ FinalizeOk(c, SharedVolume) /\ UNCHANGED callVars
    \/ FinalizeFail(c, SharedVolume) /\ UNCHANGED callVars
    \/ Finish(c) /\ UNCHANGED callVars
    \/ Ack(c) /\ UNCHANGED callVars
    \/ AgeProcessed(c) /\ UNCHANGED callVars
    \/ AgeFailed(c) /\ UNCHANGED callVars

SpecPair == InitPair /\ [][NextPair]_vars

\* the same, on worker processes that stay alive: a coroutine that can take
\* its next step takes it, and the event loop of asyncio.run runs what is
\* ready before it stops
FairPair ==
  \A c \in Cids :
    /\ WF_vars(FinalizeOk(c, SharedVolume) /\ UNCHANGED callVars)
    /\ WF_vars(FinalizeFail(c, SharedVolume) /\ UNCHANGED callVars)
    /\ WF_vars(Finish(c) /\ UNCHANGED callVars)

SpecPairLive == SpecPair /\ FairPair

\* ------------------------------------------- service methods on their own
pipeVars == <<logLevel, nAudio, rebuildable, temp, processed, failed, pc,
              attempts, redeliveries, retries, taskState, onFailureCalled,
              stored, transcription_results, forwarded, files_cleaned,
              sweepPending, raised, result, sent, finalizeArgs,
              lastFinalize, failReason, priorFailed, futures>>

\* the ways n transcribe_audio calls can end and the orders they can end in
Completions(n) ==
  {s \in [1..n -> (1..n) \X ((1..n) \cup {None, Exc})] :
     /\ \A k \in 1..n : s[k][2] \in {s[k][1], None, Exc}
     /\ \A j, k \in 1..n : j # k => s[j][1] # s[k][1]}

TranscribeCalls ==
  UNION {{[fn |-> "transcribe_multiple", n |-> n, completed |-> s,
           results |-> <<>>, subject |-> <<>>, body_text |-> FALSE] :
            s \in Completions(n)} : n \in 0..MaxAudio}

Subjects ==
  {<<>>, <<"Hello">>, <<TR, SP, "Hello">>, <<AU, SP, "Hello">>,
   <<TR, "Hello">>, <<AU, "Hello">>}

EnhanceCalls ==
  UNION {{[fn |-> "enhance", n |-> n, completed |-> <<>>, results |-> r,
           subject |-> subj, body_text |-> b] :
            r \in [1..n -> 0..n], subj \in Subjects, b \in BOOLEAN} :
         n \in 0..MaxAudio}

\* transcripts and confidences (in 1/10000) of one successful result
Transcripts ==
  LET Chars == {"a", "&", "<"}
  IN {<<x>> : x \in Chars} \cup {<<x, y>> : x \in Chars, y \in Chars}

Confidences == {0, 905, 9500, 9550, 10000}

RenderCalls ==
  {[fn |-> "render", transcript |-> t, confidence |-> bp] :
     t \in Transcripts, bp \in Confidences}

\* attachment filenames of a message, which need not differ
Filenames == {"a.wav", "b.wav"}

NameLists == UNION {[1..n -> Filenames] : n \in 0..MaxAudio}

PersistCalls ==
  UNION {{[fn |-> "persist", names |-> names, writeOK |-> w] :
            w \in SUBSET (1..Len(names))} : names \in NameLists}

\* the hour of the sweep, the zones the process can run in, and
\* modification times just inside and just outside the retention window
Now == 100
TzOffsets == {0 - 2, 0, 2}
Mtimes == {Now - cleanup_after_hours - 1, Now - cleanup_after_hours + 1}

\* the orders in which iterdir can yield the directories of an area
Orders ==
  {o \in [1..NumCids -> Cids] : \A j, k \in 1..NumCids : j # k => o[j] # o[k]}

NoBad == [area |-> "none", id |-> 0, step |-> "none"]

BadDirs ==
  {NoBad} \cup [area : {"processed", "failed"}, id : Cids,
                step : {"stat", "rmtree"}]

SweepCalls ==
  [fn : {"sweep"}, now : {Now}, tz : TzOffsets,
   processed : [Cids -> Mtimes \cup {NoMtime}],
   failed : [Cids -> Mtimes \cup {NoMtime}],
   order : Orders, bad : BadDirs]

\* the recognize conditions of the payloads of one message
ConditionCalls ==
  UNION {{[fn |-> "transcribe_each", conds |-> cs] :
            cs \in [1..n -> RecognizeConditions]} : n \in 1..MaxAudio}

\* declared media types, by the subtype they name
AudioSlash == <<"a", "u", "d", "i", "o", "/">>

ContentTypeOf(subtype) ==
  CASE subtype = "wav" -> AudioSlash \o <<"w", "a", "v">>
    [] subtype = "WAV" -> AudioSlash \o <<"W", "A", "V">>
    [] subtype = "x-wav" -> AudioSlash \o <<"x", "-", "w", "a", "v">>
    [] subtype = "mp3" -> AudioSlash \o <<"m", "p", "3">>
    [] subtype = "mpeg" -> AudioSlash \o <<"m", "p", "e", "g">>
    [] subtype = "flac" -> AudioSlash \o <<"f", "l", "a", "c">>
    [] subtype = "ogg" -> AudioSlash \o <<"o", "g", "g">>
    [] subtype = "amr" -> AudioSlash \o <<"a", "m", "r">>
    [] subtype = "AMR-WB" -> AudioSlash \o <<"A", "M", "R", "-", "W", "B">>
    [] subtype = "amr-wb" -> AudioSlash \o <<"a", "m", "r", "-", "w", "b">>
    [] subtype = "aac" -> AudioSlash \o <<"a", "a", "c">>
    [] OTHER -> AudioSlash \o <<"u", "n", "k", "n", "o", "w", "n">>

Subtypes ==
  {"wav", "WAV", "x-wav", "mp3", "mpeg", "flac", "ogg", "amr", "AMR-WB",
   "amr-wb", "aac", "unknown"}

EncodingCalls ==
  {[fn |-> "encoding", subtype |-> st, content_type |-> ContentTypeOf(st)] :
     st \in Subtypes}

\* messages with up to MaxAudio audio payloads and up to MaxOther other
\* attachments
MaxOther == 2

AttachCalls ==
  UNION {{[fn |-> "attach",
           audio |-> [i \in 1..n |-> AudioOf(i)],
           other |-> [i \in 1..m |-> OtherOf(i, ok[i])]] :
            ok \in [1..m -> BOOLEAN]} : n \in 0..MaxAudio, m \in 0..MaxOther}

InitCalls ==
  /\ InitWith({})
  /\ call \in TranscribeCalls \cup RenderCalls \cup PersistCalls \cup
                ConditionCalls \cup EncodingCalls \cup AttachCalls \cup
                {e \in EnhanceCalls :
                   \A i \in 1..e.n : e.results[i] \in {i, None}}
  /\ call.fn = "enhance" => logLevel = "INFO"
  /\ ret = NoRet

\* await transcription_service.transcribe_multiple(audio_attachments)
CallTranscribeMultiple ==
  /\ call.fn = "transcribe_multiple"
  /\ ~ret.done
  /\ LET r == TranscribeMultiple(call.n, call.completed)
     IN ret' = [done |-> TRUE, raised |-> r.raised, list |-> r.list,
                subject |-> <<>>, body |-> <<>>]
  /\ UNCHANGED <<pipeVars, call>>

\* the subject and the plain text body _create_enhanced_email builds
CallEnhance ==
  /\ call.fn = "enhance"
  /\ ~ret.done
  /\ ret' = [done |-> TRUE, raised |-> FALSE, list |-> <<>>,
             subject |-> EnhanceSubject(call.subject, call.results),
             body |-> PlainTextBody(call.n, call.results, call.body_text)]
  /\ UNCHANGED <<pipeVars, call>>

\* the entry both bodies carry for the one successful result of a message
\* with one audio payload
CallRender ==
  /\ call.fn = "render"
  /\ ~ret.done
  /\ ret' = [done |-> TRUE,
             plain |-> PlainEntry(call.transcript, call.confidence),
             html |-> HtmlEntry(call.transcript, call.confidence)]
  /\ UNCHANGED <<pipeVars, call>>

\* await file_manager.store_voicemail_files(voicemail_msg) for the first
\* message of a correlation id, on a storage volume that lets directories be
\* created and moved; writeOK are the payloads whose write and size check
\* succeed
CallPersist ==
  /\ call.fn = "persist"
  /\ ~ret.done
  /\ LET r == StoreVoicemailFiles(NoDir, NoDir, NoDir, Len(call.names),
                                  TRUE, call.writeOK, "none", TRUE, {})
     IN ret' = [done |-> TRUE,
                map |-> StoredFilesMap(call.names, r.stored),
                written |-> r.t.files \cup r.p.files,
                excepted |-> r.excepted]
  /\ UNCHANGED <<pipeVars, call>>

\* FileManager._schedule_old_file_cleanup: the processed area, then the
\* failed area, against one cutoff
CallSweep ==
  /\ call.fn = "sweep"
  /\ ~ret.done
  /\ ret' = [done |-> TRUE,
             processed |-> CleanupOldDirectoriesOf("processed", call.order,
                             call.processed, call.now, call.tz, call.bad),
             failed |-> CleanupOldDirectoriesOf("failed", call.order,
                          call.failed, call.now, call.tz, call.bad)]
  /\ UNCHANGED <<pipeVars, call>>

\* transcribe_audio for each payload of a message, payload i meeting
\* condition conds[i] at the speech API
CallTranscribeEach ==
  /\ call.fn = "transcribe_each"
  /\ ~ret.done
  /\ LET r == [i \in DOMAIN call.conds |->
                 TranscribeAudioLogged(i, call.conds[i])]
     IN ret' = [done |-> TRUE,
                list |-> [i \in DOMAIN call.conds |-> r[i].value],
                requests |-> [i \in DOMAIN call.conds |-> r[i].requests],
                log |-> [i \in DOMAIN call.conds |-> r[i].log]]
  /\ UNCHANGED <<pipeVars, call>>

\* self._get_audio_encoding(audio_attachment.content_type)
CallEncoding ==
  /\ call.fn = "encoding"
  /\ ~ret.done
  /\ ret' = [done |-> TRUE, encoding |-> GetAudioEncoding(call.content_type)]
  /\ UNCHANGED <<pipeVars, call>>

\* enhance_and_forward up to the call of _send_email: the message that is
\* handed to dispatch
CallAttach ==
  /\ call.fn = "attach"
  /\ ~ret.done
  /\ LET e == CreateEnhancedEmail(call.audio, call.other)
     IN ret' = [done |-> TRUE, handed |-> e.created, parts |-> e.parts]
  /\ UNCHANGED <<pipeVars, call>>

NextCalls ==
  \/ CallTranscribeMultiple
  \/ CallEnhance
  \/ CallRender
  \/ CallPersist
  \/ CallTranscribeEach
  \/ CallEncoding
  \/ CallAttach

SpecCalls == InitCalls /\ [][NextCalls]_vars

\* one reclaim sweep over terminal areas that hold directories of any age
InitSweep ==
  /\ InitWith({})
  /\ logLevel = "INFO"
  /\ call \in SweepCalls
  /\ ret = NoRet

NextSweep == CallSweep

SpecSweep == InitSweep /\ [][NextSweep]_vars

\* ---------------------------------------------- file manager on its own
\* FileManager is a service object: store_voicemail_files and
\* cleanup_correlation_files are called, in any order and any number of
\* times, for one correlation id.  call keeps the last call and the two
\* calls before it, ret what it returned and the directories it found.
NoStoreCall == [fn |-> "none", success |-> FALSE, hist |-> <<"none", "none">>]
NoStoreRet == [done |-> FALSE, value |-> FALSE, outcome |-> "none",
               stored |-> {},
               before |-> [t |-> NoDir, p |-> NoDir, f |-> NoDir]]

\* what the last call was
Tag(c) ==
  IF c.fn = "finalize"
  THEN (IF c.success THEN "finalize_true" ELSE "finalize_false")
  ELSE c.fn

\* the two calls before the one being made, when calls are remembered
Remember(c, keep) == IF keep THEN <<c.hist[2], Tag(c)>> ELSE c.hist

InitStore ==
  /\ InitWith({})
  /\ call = NoStoreCall
  /\ ret = NoStoreRet

\* await file_manager.store_voicemail_files(voicemail_msg) for a message of
\* n audio payloads
ApiPersist(c, env, keep) ==
  \E n \in 0..MaxAudio, mkdirOK \in env.mkdir, writeOK \in SUBSET Idx,
     fault \in env.faults, fallbackOK \in BOOLEAN, partial \in {{}, Idx} :
     /\ writeOK \subseteq 1..n
     /\ ~mkdirOK => ~temp[c].present
     /\ fault # "partial" => partial = {}
     /\ fault = "none" => fallbackOK
     /\ LET r == StoreVoicemailFiles(temp[c], processed[c], failed[c], n,
                                     mkdirOK, writeOK, fault, fallbackOK,
                                     partial)
        IN /\ temp' = [temp EXCEPT ![c] = r.t]
           /\ processed' = [processed EXCEPT ![c] = r.p]
           /\ failed' = [failed EXCEPT ![c] = r.f]
           /\ ret' = [done |-> TRUE, value |-> r.stored # {},
                      outcome |-> IF r.excepted THEN "excepted" ELSE "stored",
                      stored |-> r.stored,
                      before |-> [t |-> temp[c], p |-> processed[c],
                                  f |-> failed[c]]]
     /\ call' = [fn |-> "persist", success |-> FALSE,
                 hist |-> Remember(call, keep)]
     /\ UNCHANGED <<msgVars, pc, attempts, queueVars, stored,
                    transcription_results, forwarded, files_cleaned,
                    sweepPending, raised, result, sent, finalizeArgs,
                    lastFinalize, failReason, priorFailed, futures>>

\* await file_manager.cleanup_correlation_files(correlation_id, success)
ApiFinalize(c, env, keep) ==
  \E success \in BOOLEAN, fault \in env.faults, fallbackOK \in BOOLEAN,
     partial \in {{}, Idx} :
     /\ fault # "partial" => partial = {}
     /\ fault = "none" => fallbackOK
     /\ LET r == CleanupCorrelationFiles(temp[c], processed[c], failed[c],
                                         success, fault, fallbackOK,
                                         partial \cap temp[c].files)
        IN /\ temp' = [temp EXCEPT ![c] = r.t]
           /\ processed' = [processed EXCEPT ![c] = r.p]
           /\ failed' = [failed EXCEPT ![c] = r.f]
           /\ ret' = [done |-> TRUE, value |-> r.ret, outcome |-> r.outcome,
                      stored |-> {},
                      before |-> [t |-> temp[c], p |-> processed[c],
                                  f |-> failed[c]]]
     /\ call' = [fn |-> "finalize", success |-> success,
                 hist |-> Remember(call, keep)]
     /\ UNCHANGED <<msgVars, pc, attempts, queueVars, stored,
                    transcription_results, forwarded, files_cleaned,
                    sweepPending, raised, result, sent, finalizeArgs,
                    lastFinalize, failReason, priorFailed, futures>>

\* the correlation id the calls are made for
StoreId == 1

\* on a storage volume whose directory operations succeed
NextStore ==
  \/ ApiPersist(StoreId, ReliableStorage, TRUE)
  \/ ApiFinalize(StoreId, ReliableStorage, TRUE)

SpecStore == InitStore /\ [][NextStore]_vars

\* on a storage volume on which the steps of a finalize call can fail; only
\* the last call is remembered
NextStoreFaulty ==
  \/ ApiPersist(StoreId, ReliableStorage, FALSE)
  \/ ApiFinalize(StoreId, FaultyStorage, FALSE)

SpecStoreFaulty == InitStore /\ [][NextStoreFaulty]_vars

\* ------------------------------------------------------- inbound handler
\* StorageConfig.max_audio_size_bytes
max_audio_size_bytes == max_audio_size_mb * 1024 * 1024

\* VoicemailMessage.get_total_audio_size: the sum of size_bytes
RECURSIVE GetTotalAudioSize(_)
GetTotalAudioSize(sizes) ==
  IF sizes = <<>> THEN 0 ELSE Head(sizes) + GetTotalAudioSize(Tail(sizes))

\* a DATA step that queues the message before it looks at the audio size
HandleDATAQueuesFirst(parse, sizes, enqueue) ==
  IF parse = "raise" THEN [code |-> 451, tasks |-> 0]
  ELSE IF enqueue = "raise" THEN [code |-> 451, tasks |-> 0]
  ELSE IF GetTotalAudioSize(sizes) > max_audio_size_bytes
       THEN [code |-> 552, tasks |-> 1]
  ELSE [code |-> 250, tasks |-> 1]

\* SMTPHandler.handle_DATA: the reply code and the number of tasks put on
\* the queue.  parse: parsebytes and from_email_message return or raise;
\* sizes: size_bytes of the audio attachments; enqueue: voicemail_msg.dict()
\* and process_voicemail_email.delay return (the task is on the queue) or
\* raise (it is not)
HandleDATA(parse, sizes, enqueue) ==
  IF parse = "raise" THEN [code |-> 451, tasks |-> 0]
  ELSE IF GetTotalAudioSize(sizes) > max_audio_size_bytes
       THEN [code |-> 552, tasks |-> 0]
  ELSE IF enqueue = "raise" THEN [code |-> 451, tasks |-> 0]
  ELSE [code |-> 250, tasks |-> 1]

\* sizes of audio payloads around half of the maximum, and one above it
PayloadSizes ==
  {max_audio_size_bytes \div 2, max_audio_size_bytes \div 2 + 1,
   max_audio_size_bytes + 1}

\* the correlation id of the SMTP session
InboundId == 1

DataCalls ==
  UNION {[fn : {"handle_DATA"}, parse : {"ok", "raise"},
          sizes : [1..n -> PayloadSizes], enqueue : {"ok", "raise"}] :
         n \in 0..MaxAudio}

\* a message arrives at the SMTP listener; nothing is queued yet
InitInbound ==
  /\ InitWith({})
  /\ logLevel = "INFO"
  /\ call \in DataCalls
  /\ ret = NoRet

\* the DATA command of the session: the reply is sent, and the task, when
\* one was put on the queue, carries the audio attachments of the message;
\* the worker may or may not be able to rebuild the message from what the
\* JSON serializer of the queue hands it
HandleData(c) ==
  /\ call.fn = "handle_DATA"
  /\ ~ret.done
  /\ pc[c] = "idle"
  /\ LET r == HandleDATA(call.parse, call.sizes, call.enqueue)
     IN /\ ret' = [done |-> TRUE, code |-> r.code, tasks |-> r.tasks]
        /\ pc' = [pc EXCEPT ![c] = IF r.tasks > 0 THEN "queued" ELSE @]
        /\ nAudio' = [nAudio EXCEPT ![c] = IF r.tasks > 0
                                           THEN Len(call.sizes) ELSE @]
        /\ \E ok \in BOOLEAN :
             /\ r.tasks = 0 => ok
             /\ rebuildable' = [rebuildable EXCEPT ![c] = ok]
  /\ UNCHANGED <<logLevel, fsVars, queueVars, attempts, stored,
                 transcription_results, forwarded, files_cleaned,
                 sweepPending, raised, result, sent, finalizeArgs,
                 lastFinalize, failReason, priorFailed, futures, call>>

\* the listener and the worker that processes what is on the queue
NextInbound ==
  \/ HandleData(InboundId)
  \/ NextReliable

SpecInbound == InitInbound /\ [][NextInbound]_vars

\* ------------------------------------------------------------------ claims
Returned(c) == pc[c] = "returned"

\* C1: the artifact directory of a correlation id exists in at most one of
\* the areas working (temp), succeeded (processed) and failed, in every
\* reachable state
C1_AtMostOneArea ==
  \A c \in Cids :
    /\ ~(temp[c].present /\ processed[c].present)
    /\ ~(temp[c].present /\ failed[c].present)
    /\ ~(processed[c].present /\ failed[c].present)

\* C2: when a re-invocation that follows a failed attempt returns, the
\* correlation id has no directory in working and not both one in failed and
\* one in succeeded
C2_ReinvocationSingleArea ==
  \A c \in Cids :
    (Returned(c) /\ priorFailed[c]) =>
      /\ ~temp[c].present
      /\ ~(failed[c].present /\ processed[c].present)

\* C3: every invocation returns a ProcessingResult and never raises; a failed
\* attempt (rebuild, storage, dispatch, or unexpected error) reports
\* success=false, a non-null error_message and the message's correlation id
C3_ReturnsResultNeverRaises ==
  \A c \in Cids :
    Returned(c) =>
      /\ ~raised[c]
      /\ result[c].valid
      /\ result[c].correlation_id = c
      /\ failReason[c] # "none" =>
           (~result[c].success /\ result[c].error_message)

C3_Witness ==
  \E c \in Cids :
    /\ Returned(c)
    /\ failReason[c] \in {"rebuild", "storage", "dispatch", "timeout"}
    /\ ~result[c].success

\* C4: after an attempt that ends in failure the queue re-invokes the entry
\* point until an attempt succeeds or the maximum number of retries is used
C4_RetriedUntilSuccessOrCeiling ==
  \A c \in Cids :
    (pc[c] = "done" /\ failReason[c] \in {"storage", "dispatch", "timeout"})
      => (result[c].success \/ retries[c] = task_max_retries)

\* C5: the retries of one message never exceed task_max_retries, and a
\* message whose attempts all failed is surfaced in the task failure state
\* with on_failure run, not as a completed task
C5_BoundedAndSurfacedAsFailed ==
  \A c \in Cids :
    /\ retries[c] <= task_max_retries
    /\ (pc[c] = "done" /\ ~result[c].success) =>
         (taskState[c] = "FAILURE" /\ onFailureCalled[c])

\* C6: whenever an invocation has returned its ProcessingResult, no
\* directory of that correlation id remains in the working area
C6_NoWorkingDirAfterReturn ==
  \A c \in Cids : Returned(c) => ~temp[c].present

\* C7: on every path to Failed, finalize(correlation id, success=false) is
\* invoked before the result is returned, and a failing finalize changes
\* nothing in the result but files_cleaned=false
C7_FailedAlwaysFinalizes ==
  \A c \in Cids :
    (Returned(c) /\ ~result[c].success) =>
      /\ FALSE \in finalizeArgs[c]
      /\ lastFinalize[c] = "failed" =>
           result[c] = ProcessingResult(c, FALSE,
                         CountNotNone(transcription_results[c]), TRUE,
                         forwarded[c], FALSE)

\* C8: when persist stores none of the (at least one) audio payloads, the
\* attempt fails without transcribing or dispatching, with success=false and
\* an error_message, and the directory ends in failed, not in working or
\* succeeded
C8_ZeroStoredEndsInFailedArea ==
  \A c \in Cids :
    (Returned(c) /\ failReason[c] = "storage") =>
      /\ ~result[c].success
      /\ result[c].error_message
      /\ transcription_results[c] = <<>>
      /\ ~forwarded[c]
      /\ failed[c].present
      /\ ~temp[c].present
      /\ ~processed[c].present

DispatchFailedAfterStore(c) ==
  Returned(c) /\ failReason[c] = "dispatch" /\ stored[c] # {}

\* C9 as stated: a dispatch failure after store and transcription gives
\* success=false, forwarded=false and the directory moved from working to
\* failed
C9_DispatchFailureMovesToFailed ==
  \A c \in Cids :
    DispatchFailedAfterStore(c) =>
      /\ ~result[c].success
      /\ ~result[c].forwarded
      /\ failed[c].present
      /\ ~temp[c].present

\* C9 amended: a dispatch failure after store and transcription gives
\* success=false and forwarded=false and runs finalize(false) on the working
\* directory; when the relocation succeeds the directory is in failed with
\* the stored files and gone from working; when it fails the fallback has
\* deleted the working directory, or the directory is still in working and
\* files_cleaned is false
C9_DispatchFailureFinalized ==
  \A c \in Cids :
    DispatchFailedAfterStore(c) =>
      /\ ~result[c].success
      /\ ~result[c].forwarded
      /\ FALSE \in finalizeArgs[c]
      /\ lastFinalize[c] \in {"moved", "deleted", "failed"}
      /\ lastFinalize[c] = "moved" =>
           (failed[c].present /\ stored[c] \subseteq failed[c].files
            /\ ~temp[c].present /\ result[c].files_cleaned)
      /\ lastFinalize[c] = "deleted" =>
           (~temp[c].present /\ result[c].files_cleaned)
      /\ lastFinalize[c] = "failed" =>
           (temp[c].present /\ ~result[c].files_cleaned)

C9_Witness ==
  \E c \in Cids :
    /\ DispatchFailedAfterStore(c)
    /\ lastFinalize[c] = "moved"
    /\ failed[c].present
    /\ transcription_results[c] # <<>>

\* C10: when dispatch succeeded and finalize(success=true) then fails, the
\* result still has success=true and forwarded=true, with files_cleaned=false
C10_FinalizeFailureKeepsSuccess ==
  \A c \in Cids :
    (Returned(c) /\ TRUE \in finalizeArgs[c]) =>
      /\ result[c].success
      /\ result[c].forwarded
      /\ ~result[c].error_message
      /\ result[c].files_cleaned = (lastFinalize[c] # "failed")

C10_Witness ==
  \E c \in Cids :
    /\ Returned(c)
    /\ TRUE \in finalizeArgs[c]
    /\ lastFinalize[c] = "failed"
    /\ result[c].success
    /\ ~result[c].files_cleaned

NoPending(fs) == \A i \in DOMAIN fs : fs[i] # Pending

\* every slot holds the outcome of its own payload: result i or None
Populated(c, results) ==
  /\ Len(results) = nAudio[c]
  /\ \A i \in 1..nAudio[c] : results[i] \in {i, None}

C12_MessageOutcomesAligned ==
  \A c \in Cids :
    pc[c] = "forward" =>
      Populated(c, MsgTranscriptionResults(transcription_results[c]))

\* C13: within one invocation, enhancement and dispatch start only after
\* every transcription call of the fan-out has finished: the step from the
\* fan-out to enhancement is taken with no call in flight and hands over a
\* fully populated list, and the message is never sent while a call is in
\* flight
C13_DispatchAfterFanOut ==
  [][\A c \in Cids :
       /\ (pc[c] = "gather" /\ pc'[c] = "forward") =>
            (NoPending(futures[c]) /\ Populated(c, transcription_results'[c]))
       /\ (sent'[c] # sent[c] /\ nAudio[c] > 0) =>
            (/\ Len(futures[c]) = nAudio[c]
             /\ NoPending(futures[c])
             /\ Populated(c, transcription_results[c]))]_vars

C13_Witness ==
  \E c \in Cids :
    /\ nAudio[c] >= 2
    /\ sent[c] > 0
    /\ forwarded[c]
    /\ Len(futures[c]) = nAudio[c]
    /\ NoPending(futures[c])

\* C14: the transcription step never fails the pipeline: whatever
\* combination of payloads fails to transcribe, the attempt goes on to
\* enhancement and dispatch with a list that holds a failure entry for each
\* failed payload
C14_TranscriptionNeverFails ==
  \A c \in Cids :
    /\ failReason[c] # "transcription"
    /\ (pc[c] = "gather" /\ NoPending(futures[c])) =>
         (\A i \in 1..nAudio[c] : futures[c][i] \in {i, None})
    /\ (pc[c] = "forward" /\ nAudio[c] > 0) =>
         (Populated(c, transcription_results[c])
          /\ transcription_results[c] = futures[c])

C14_Witness ==
  \E c \in Cids :
    /\ pc[c] = "forward"
    /\ nAudio[c] >= 2
    /\ \A i \in 1..nAudio[c] : transcription_results[c][i] = None

\* C15: whatever is done for one correlation id (persist, finalize, the
\* failure handling of a stage) leaves the working directory of every other
\* correlation id as it was, also while that one is in flight, and the
\* reclaim sweep that ends an invocation removes nothing from the working
\* area
C15_WorkingAreaIsolated ==
  [][/\ \A d \in Cids : pc'[d] = pc[d] => temp'[d] = temp[d]
     /\ \A c \in Cids :
          (pc[c] = "finish" /\ pc'[c] = "returned") => temp' = temp]_vars

C15_Witness ==
  \E c, d \in Cids :
    /\ c # d
    /\ pc[d] \in {"gather", "forward"}
    /\ temp[d].present /\ temp[d].files # {}
    /\ Returned(c)
    /\ lastFinalize[c] \in {"moved", "deleted"}
    /\ nAudio[c] > 0

\* C16: when the time limit of the invocation elapses while transcription
\* calls are in flight, the attempt goes through Failed finalization
\* (finalize with success=false) and returns with no directory of the
\* correlation id in the working area
C16_DeadlineFinalizesFailed ==
  \A c \in Cids :
    (Returned(c) /\ failReason[c] = "timeout" /\ nAudio[c] > 0
     /\ transcription_results[c] = <<>>) =>
      /\ FALSE \in finalizeArgs[c]
      /\ ~temp[c].present

EnhanceReturned == call.fn = "enhance" /\ ret.done

HasSection(body, name) == \E k \in 1..Len(body) : body[k] = name

\* C17: for a message with zero audio payloads the enhanced subject is the
\* original subject, with no transcription marker and no audio marker added,
\* and the body has neither a transcription section nor an audio notice
C17_NoAudioPassesThrough ==
  (EnhanceReturned /\ call.n = 0) =>
    /\ ret.subject = call.subject
    /\ ~HasSection(ret.body, "transcription")
    /\ ~HasSection(ret.body, "notice")

NoDirectoryOf(c) ==
  ~temp[c].present /\ ~processed[c].present /\ ~failed[c].present

\* C18 as stated: every message with zero audio payloads is finalized
\* through the no-transcription path (no persist, no fan-out, no directory
\* of the correlation id) with success=true and transcriptions_count=0
C18_NoAudioAlwaysSucceeds ==
  \A c \in Cids :
    (Returned(c) /\ rebuildable[c] /\ nAudio[c] = 0) =>
      /\ stored[c] = {} /\ futures[c] = <<>>
      /\ transcription_results[c] = <<>>
      /\ NoDirectoryOf(c)
      /\ result[c].success
      /\ result[c].transcriptions_count = 0

\* C18 amended: a message with zero audio payloads takes the
\* no-transcription path (no persist, no fan-out, at no time a directory of
\* the correlation id) straight to dispatch; its result has
\* transcriptions_count=0, and success=true exactly when dispatch succeeded
\* within the time limit, finalize(success=true) then being a no-op that
\* reports files_cleaned=true
C18_NoAudioSkipsToDispatch ==
  \A c \in Cids :
    (rebuildable[c] /\ nAudio[c] = 0) =>
      /\ NoDirectoryOf(c)
      /\ pc[c] \notin {"store", "transcribe", "gather"}
      /\ stored[c] = {} /\ futures[c] = <<>>
      /\ transcription_results[c] = <<>>
      /\ Returned(c) =>
           /\ result[c].transcriptions_count = 0
           /\ failReason[c] \in {"none", "dispatch", "timeout"}
           /\ result[c].success = (failReason[c] = "none")
           /\ result[c].success =>
                (/\ result[c].forwarded
                 /\ finalizeArgs[c] = {TRUE}
                 /\ lastFinalize[c] = "noop"
                 /\ result[c].files_cleaned)

C18_Witness ==
  \E c \in Cids :
    /\ Returned(c) /\ rebuildable[c] /\ nAudio[c] = 0
    /\ result[c].success
    /\ result[c].transcriptions_count = 0
    /\ sent[c] > 0

\* C19 as stated: with at least one successful outcome the enhanced subject
\* is the original subject with the prefix "[Transcribed] " in front exactly
\* once, added when the subject does not start with that prefix and not
\* added when it does, so that enhancing the result again changes nothing
C19_TranscribedPrefixOnce ==
  (EnhanceReturned /\ CountNotNone(call.results) > 0) =>
    /\ ret.subject = IF StartsWith(call.subject, <<TR, SP>>)
                     THEN call.subject
                     ELSE <<TR, SP>> \o call.subject
    /\ EnhanceSubject(ret.subject, call.results) = ret.subject

\* C19 amended: with at least one successful outcome the prefix
\* "[Transcribed] " is put in front of a subject that does not start with
\* the marker "[Transcribed]", and a subject that starts with the marker,
\* followed by a space or not, is returned as it is; enhancing the result
\* again changes nothing
C19_TranscribedMarkerOnce ==
  (EnhanceReturned /\ CountNotNone(call.results) > 0) =>
    /\ ret.subject = IF StartsWith(call.subject, <<TR>>)
                     THEN call.subject
                     ELSE <<TR, SP>> \o call.subject
    /\ EnhanceSubject(ret.subject, call.results) = ret.subject

C19_Witness ==
  /\ EnhanceReturned
  /\ CountNotNone(call.results) > 0
  /\ StartsWith(call.subject, <<TR, SP>>)
  /\ ret.subject = call.subject

\* C20 as stated: with audio payloads and no successful outcome the enhanced
\* subject is the original subject with the prefix "[Audio] " in front
\* exactly once (not added again when the subject starts with it), and the
\* body has the transcription-unavailable notice and no transcription
\* section
C20_AudioPrefixOnce ==
  (EnhanceReturned /\ call.n > 0 /\ CountNotNone(call.results) = 0) =>
    /\ ret.subject = IF StartsWith(call.subject, <<AU, SP>>)
                     THEN call.subject
                     ELSE <<AU, SP>> \o call.subject
    /\ HasSection(ret.body, "notice")
    /\ ~HasSection(ret.body, "transcription")

\* C20 amended: with audio payloads and no successful outcome the prefix
\* "[Audio] " is put in front of a subject that does not start with the
\* marker "[Audio]", a subject that starts with the marker, followed by a
\* space or not, is returned as it is, and the body has the
\* transcription-unavailable notice and no transcription section
C20_AudioMarkerOnce ==
  (EnhanceReturned /\ call.n > 0 /\ CountNotNone(call.results) = 0) =>
    /\ ret.subject = IF StartsWith(call.subject, <<AU>>)
                     THEN call.subject
                     ELSE <<AU, SP>> \o call.subject
    /\ EnhanceSubject(ret.subject, call.results) = ret.subject
    /\ HasSection(ret.body, "notice")
    /\ ~HasSection(ret.body, "transcription")

C20_Witness ==
  /\ EnhanceReturned
  /\ call.n > 0 /\ CountNotNone(call.results) = 0
  /\ call.subject = <<"Hello">>
  /\ ret.subject = <<AU, SP, "Hello">>
  /\ HasSection(ret.body, "notice")

\* the payloads whose transcription call ended in a success outcome
SuccessOutcomes(fs) == {i \in DOMAIN fs : fs[i] = i}

PastTranscription(c) ==
  pc[c] \in {"forward", "finalize_ok", "finalize_fail", "finish", "returned"}

RenderReturned == call.fn = "render" /\ ret.done

\* the percentages of Confidences written with two decimals
TwoDecimals(bp) ==
  CASE bp = 0 -> <<"0", ".", "0", "0", "%">>
    [] bp = 905 -> <<"9", ".", "0", "5", "%">>
    [] bp = 9500 -> <<"9", "5", ".", "0", "0", "%">>
    [] bp = 9550 -> <<"9", "5", ".", "5", "0", "%">>
    [] bp = 10000 -> <<"1", "0", "0", ".", "0", "0", "%">>

\* C22 as stated: with one payload transcribed to T at confidence 0.95, the
\* enhanced body contains T verbatim and the confidence as the text "95%"
C22_TranscriptAnd95Percent ==
  (RenderReturned /\ call.confidence = 9500) =>
    /\ Contains(ret.plain, call.transcript)
    /\ Contains(ret.plain, <<"9", "5", "%">>)

\* C22 amended: with one payload transcribed to T at confidence c, the plain
\* text body contains T verbatim, the HTML body contains T with its HTML
\* special characters escaped, and both contain c as a percentage with two
\* decimals, "95.00%" for 0.95
C22_TranscriptAndTwoDecimalPercent ==
  RenderReturned =>
    /\ Contains(ret.plain, call.transcript)
    /\ Contains(ret.html, HtmlEscape(call.transcript))
    /\ \A text \in {ret.plain, ret.html} :
         /\ Contains(text, TwoDecimals(call.confidence))
         /\ ~Contains(text, <<"9", "5", "%">>)

C22_Witness ==
  /\ RenderReturned
  /\ call.confidence = 9500
  /\ call.transcript = <<"a", "&">>
  /\ Contains(ret.plain, <<"a", "&", "\n">>)
  /\ Contains(ret.plain, <<"9", "5", ".", "0", "0", "%">>)

\* the last call was finalize(id, true), right after finalize(id, true),
\* right after a persist
FinalizedTwice ==
  /\ Tag(call) = "finalize_true"
  /\ call.hist = <<"persist", "finalize_true">>

Areas == [t |-> temp[StoreId], p |-> processed[StoreId], f |-> failed[StoreId]]

\* C23: finalize(id, true) twice in a row after a persist leaves one
\* directory for id in the succeeded area and nothing for id in working or
\* failed, and the second call returns success without changing any area
C23_FinalizeTwiceLeavesSucceededOnly ==
  FinalizedTwice =>
    /\ processed[StoreId].present
    /\ ~temp[StoreId].present
    /\ ~failed[StoreId].present
    /\ ret.value
    /\ Areas = ret.before

\* the target area of the last finalize call, as the call found it and as
\* it left it
TargetBefore == IF call.success THEN ret.before.p ELSE ret.before.f
TargetAfter == IF call.success THEN processed[StoreId] ELSE failed[StoreId]

FinalizedOntoTarget ==
  /\ call.fn = "finalize"
  /\ ret.before.t.present
  /\ TargetBefore.present

C25_FallbackLeavesOneArea ==
  call.fn = "finalize" =>
    /\ ~ret.value =>
         (ret.outcome = "failed" /\ temp[StoreId] = ret.before.t)
    /\ ret.outcome = "deleted" =>
         (ret.value /\ ret.before.t.present /\ ~temp[StoreId].present)
    /\ ret.value =>
         (/\ ~temp[StoreId].present
          /\ ~(processed[StoreId].present /\ failed[StoreId].present))

PersistReturned == call.fn = "persist" /\ ret.done

Payloads == 1..Len(call.names)

\* C26: in persist a write or size-check failure of one payload does not
\* abort the others: every payload whose write succeeds is written and has
\* an entry in the returned map, wherever the failing payload is in the list
C26_FailureDoesNotAbortSiblings ==
  (PersistReturned /\ call.writeOK # Payloads) =>
    \A i \in call.writeOK :
      /\ i \in ret.written
      /\ call.names[i] \in DOMAIN ret.map

\* C27: when all payload writes succeed, persist returns one map entry per
\* audio payload and stores each payload under a derived name of its own,
\* for all payload lists, those with repeated original filenames included
C27_OneEntryPerPayload ==
  (PersistReturned /\ call.writeOK = Payloads) =>
    /\ Cardinality(DOMAIN ret.map) = Len(call.names)
    /\ ret.written = Payloads
    /\ \A i, j \in Payloads :
         i # j => GenerateSafeFilename(call.names[i], i)
                    # GenerateSafeFilename(call.names[j], j)

SweepReturned == call.fn = "sweep" /\ ret.done

\* hours since the last modification of a directory
Age(st_mtime) == call.now - st_mtime

\* C28: after a sweep that completes, every directory of the succeeded or
\* failed area whose last modification is older than the retention window
\* is absent and every younger one is still present
C28_SweepFollowsRetentionWindow ==
  (SweepReturned /\ call.bad = NoBad) =>
    \A d \in Cids :
      /\ call.processed[d] # NoMtime =>
           /\ Age(call.processed[d]) > cleanup_after_hours
                => d \notin ret.processed
           /\ Age(call.processed[d]) < cleanup_after_hours
                => d \in ret.processed
      /\ call.failed[d] # NoMtime =>
           /\ Age(call.failed[d]) > cleanup_after_hours => d \notin ret.failed
           /\ Age(call.failed[d]) < cleanup_after_hours => d \in ret.failed

\* C29: a failure to inspect or delete one expired directory does not keep
\* the sweep from reclaiming the others: every other directory the sweep
\* finds expired, in the same area and in the other one, is deleted
C29_SweepFailureIsolated ==
  (SweepReturned /\ call.bad # NoBad) =>
    \A d \in Cids :
      /\ (/\ call.processed[d] # NoMtime
          /\ BeforeCutoff(call.processed[d], call.now, call.tz)
          /\ ~(call.bad.area = "processed" /\ call.bad.id = d))
           => d \notin ret.processed
      /\ (/\ call.failed[d] # NoMtime
          /\ BeforeCutoff(call.failed[d], call.now, call.tz)
          /\ ~(call.bad.area = "failed" /\ call.bad.id = d))
           => d \notin ret.failed

\* no directory of a terminal area is past the retention window
NoExpiredLeft ==
  \A d \in Cids :
    /\ ~(processed[d].present /\ processed[d].old)
    /\ ~(failed[d].present /\ failed[d].old)

EachReturned == call.fn = "transcribe_each" /\ ret.done

\* the conditions the contract names, and the error message of each
NamedConditions == {"invalid_argument", "deadline_exceeded", "resource_exhausted"}

MessageOf(cond) ==
  CASE cond = "invalid_argument" -> "Invalid argument for transcription"
    [] cond = "deadline_exceeded" -> "Transcription timeout"
    [] cond = "resource_exhausted" -> "API quota exceeded"

InLog(log, message) == \E k \in 1..Len(log) : log[k] = message

\* the outcome of a payload is that of its own condition, after one request
TerminalForPayloadOnly ==
  \A i \in DOMAIN call.conds :
    /\ ret.requests[i] = 1
    /\ ret.list[i] = IF call.conds[i] = "results" THEN i ELSE None

EncodingReturned == call.fn = "encoding" /\ ret.done

\* C32: the mapping returns LINEAR16 for wav, MP3 for mp3, FLAC for flac,
\* OGG_OPUS for ogg, AMR for amr, AMR_WB for amr-wb and the default LINEAR16
\* for every other subtype
C32_EncodingOfEverySubtype ==
  EncodingReturned =>
    ret.encoding =
      CASE call.subtype \in {"wav", "WAV", "x-wav"} -> "LINEAR16"
        [] call.subtype \in {"mp3", "mpeg"} -> "MP3"
        [] call.subtype = "flac" -> "FLAC"
        [] call.subtype = "ogg" -> "OGG_OPUS"
        [] call.subtype = "amr" -> "AMR"
        [] call.subtype \in {"amr-wb", "AMR-WB"} -> "AMR_WB"
        [] OTHER -> "LINEAR16"

AttachReturned == call.fn = "attach" /\ ret.done

\* the data and filename an attachment or a part carries
Carried(a) == [kind |-> a.kind, id |-> a.id]

\* C33: every enhanced message handed to dispatch carries every audio
\* payload and every other attachment of the input message, with their data
\* and filenames as they were and in the order of the input; no message is
\* handed over with an attachment missing
C33_AttachmentsCarriedThrough ==
  (AttachReturned /\ ret.handed) =>
    LET input == call.audio \o call.other
    IN /\ Len(ret.parts) = Len(input)
       /\ \A k \in 1..Len(input) : Carried(ret.parts[k]) = Carried(input[k])

\* the payloads a transcribe_audio call was created for
SentToTranscription(c) == DOMAIN futures[c]

\* C34 as stated: the fan-out is run only over payloads that were
\* persisted; a payload whose persist failed while a sibling was stored is
\* not sent to the transcription capability
C34_FanOutOverStoredOnly ==
  \A c \in Cids :
    pc[c] = "gather" => SentToTranscription(c) \subseteq stored[c]

\* C34 amended: the fan-out is run when at least one payload was persisted,
\* and then over every audio payload of the message, the payloads whose
\* persist failed included: each of them is sent to the transcription
\* capability from the data the message carries
C34_FanOutOverAllPayloads ==
  \A c \in Cids :
    pc[c] = "gather" =>
      /\ stored[c] # {}
      /\ SentToTranscription(c) = 1..nAudio[c]

\* payload 2 was not persisted and has been transcribed
C34_Witness ==
  \E c \in Cids :
    /\ pc[c] = "gather"
    /\ nAudio[c] = 2
    /\ stored[c] = {1}
    /\ futures[c][2] = 2

\* C35: a directory of a correlation id appears in the succeeded area only
\* by the finalize(success=true) that follows a successful dispatch of the
\* message; no failure path of persist or of the pipeline puts one there
C35_SucceededOnlyAfterDispatch ==
  [][\A c \in Cids :
       (processed'[c].present /\ processed'[c] # processed[c]) =>
         (pc[c] = "finalize_ok" /\ forwarded[c] /\ sent[c] > 0)]_vars

\* C36: for every accepted message the enhanced message is successfully
\* dispatched to the recipients at most once over all invocations of the
\* task for that message, redelivery after a lost worker and retries
\* included
C36_DispatchedAtMostOnce ==
  \A c \in Cids : sent[c] <= 1

\* C37: in every ProcessingResult an invocation returns, success is true if
\* and only if forwarded is true, and transcriptions_count is at most the
\* number of audio payloads of the message
C37_SuccessIffForwarded ==
  \A c \in Cids :
    (Returned(c) /\ result[c].valid) =>
      /\ result[c].success <=> result[c].forwarded
      /\ result[c].transcriptions_count \in 0..nAudio[c]

\* a success with one of two payloads transcribed
C37_Witness ==
  \E c \in Cids :
    /\ Returned(c)
    /\ result[c].success /\ result[c].forwarded
    /\ nAudio[c] = 2
    /\ result[c].transcriptions_count = 1

\* C38: whenever a ProcessingResult is returned with files_cleaned=true the
\* correlation id has no directory in the working area at that moment, and
\* whenever a working directory of the id is left behind the result reports
\* files_cleaned=false
C38_FilesCleanedMeansNoWorkingDir ==
  \A c \in Cids :
    (Returned(c) /\ result[c].valid) =>
      /\ result[c].files_cleaned => ~temp[c].present
      /\ temp[c].present => ~result[c].files_cleaned

\* the relocation failed, the fallback deleted the working directory
C38_Witness ==
  \E c \in Cids :
    /\ Returned(c)
    /\ nAudio[c] > 0
    /\ lastFinalize[c] = "deleted"
    /\ result[c].files_cleaned
    /\ ~temp[c].present

DataReplied == call.fn = "handle_DATA" /\ ret.done

\* C39: the DATA step answers 250 only if exactly one processing task was
\* put on the queue for the message; when the total audio size exceeds the
\* maximum it answers 552 and queues nothing; when parsing or queueing
\* raises it answers 451; and a message that was not answered with 250 is
\* never processed by a worker
C39_ReplyMatchesQueue ==
  /\ ~ret.done => attempts[InboundId] = 0
  /\ DataReplied =>
       /\ ret.code = 250 => ret.tasks = 1
       /\ (call.parse = "ok"
           /\ GetTotalAudioSize(call.sizes) > max_audio_size_bytes)
            => (ret.code = 552 /\ ret.tasks = 0)
       /\ (call.parse = "raise"
           \/ (GetTotalAudioSize(call.sizes) <= max_audio_size_bytes
               /\ call.enqueue = "raise"))
            => (ret.code = 451 /\ ret.tasks = 0)
       /\ ret.code # 250 =>
            (pc[InboundId] = "idle" /\ attempts[InboundId] = 0)
       /\ ret.code \in {250, 451, 552}

\* two payloads that add up to the maximum exactly: accepted, queued once
\* and processed
C39_Witness ==
  /\ DataReplied
  /\ ret.code = 250 /\ ret.tasks = 1
  /\ Len(call.sizes) = 2
  /\ GetTotalAudioSize(call.sizes) = max_audio_size_bytes
  /\ Returned(InboundId)
  /\ attempts[InboundId] = 1

====
